---- MODULE Spec2Model ----
(***************************************************************************)
(* puchikarui: execution contexts over sqlite3 connections, and the table  *)
(* mapping layer (src/puchikarui/puchikarui.py).                           *)
(*                                                                         *)
(* Spec     the ExecutionContext state machine: contexts, the connections  *)
(*          they hold (possibly shared through double()), transactions.    *)
(* SpecTable the calls made through a TableContext on one registered table:*)
(*          insert, by_id, save, delete, and the statements they execute.  *)
(***************************************************************************)
EXTENDS Integers, Sequences, FiniteSets, TLC

\* ------------------------------------------------------------------ bounds
MaxCtx == 2      \* contexts ever constructed
MaxConn == 1     \* sqlite3 connections ever opened
MaxRows == 1     \* largest rowid the store hands out
MaxStored == 1   \* rows a mapped table holds at a time
MaxValues == 4   \* values given to one insert
MaxOpen == 2     \* contexts one DataSource opens
MaxAdded == 1    \* tables registered on a schema after its construction
MaxWrites == 2   \* statements that write, issued through the tables of one owner
MaxScoped == 3   \* contexts made by and around the methods wrapped by with_ctx

\* ----------------------------------------------------------- Python values
\* Python values are integers; None and '' get codes of their own.
None == -1
EmptyStr == -2
PyTrue == 1
PyFalse == 0

\* bool(v): None, 0/False and '' are falsy.
truthy(v) == v \notin {None, PyFalse, EmptyStr}

\* ------------------------------------------------------------- outcomes
Ok == "ok"
\* sqlite3.ProgrammingError("Cannot operate on a closed database.")
ProgrammingError == "ProgrammingError: Cannot operate on a closed database"
\* sqlite3.OperationalError raised by the store for a statement it rejects
OperationalError == "OperationalError: statement rejected"
\* sqlite3.OperationalError("Connection was closed. commit() failed")
ConnectionClosed == "OperationalError: Connection was closed. commit() failed"
\* 'NoneType' object has no attribute ...
AttributeError == "AttributeError: 'NoneType' object has no attribute"

\* The errors that say the connection is closed.
ClosedErrors == {ProgrammingError, ConnectionClosed}

VARIABLES
    ctxs,    \* the ExecutionContext objects constructed so far, in order
    conns,   \* the sqlite3 connections opened so far, in order
    last,    \* the last call made: what was called, on what, and what came back
    table,   \* the Table a TableContext is bound to
    store,   \* the rows of that table as the context's connection sees them
    call,    \* the last call made through the table mapping
    query,   \* the last statement the QueryBuilder was asked for
    source   \* a DataSource with its schema, its file and the contexts it opened

cvars == <<ctxs, conns, last>>
tvars == <<table, store, call>>
qvars == <<query>>
dvars == <<source>>
vars == <<ctxs, conns, last, table, store, call, query, source>>

\* ------------------------------------------------------- sqlite3 (the store)
RowIds == 1..MaxRows

\* sqlite3.connect(':memory:'): a fresh, empty database outside a transaction.
\* journal holds the rows as of the last commit while a transaction is active.
connect == [alive |-> TRUE, rows |-> {}, in_transaction |-> FALSE, journal |-> {}]

\* What the connection has committed.
Committed(cn) == IF cn.in_transaction THEN cn.journal ELSE cn.rows

\* The statements the model issues: sql text class and bound parameters.
Statements ==
    {[sql |-> "INSERT", params |-> <<PyTrue>>],
     [sql |-> "SELECT", params |-> <<>>],
     [sql |-> "BEGIN", params |-> <<>>],
     [sql |-> "DELETE", params |-> <<>>],
     [sql |-> "BAD", params |-> <<PyTrue>>]}

Max(S) == IF S = {} THEN 0 ELSE CHOOSE x \in S : \A y \in S : y <= x

\* The implicit BEGIN sqlite3 issues before a data-changing statement.
implicit_begin(cn) ==
    IF cn.in_transaction THEN cn
    ELSE [cn EXCEPT !.in_transaction = TRUE, !.journal = cn.rows]

\* Connection.commit()
conn_commit(cn) ==
    IF ~cn.alive THEN [res |-> ProgrammingError, conn |-> cn]
    ELSE [res |-> Ok,
          conn |-> [cn EXCEPT !.in_transaction = FALSE, !.journal = {}]]

\* Connection.rollback(): nothing to do outside a transaction.
\* undone: the rowids whose presence the rollback changed.
conn_rollback(cn) ==
    IF ~cn.alive THEN [res |-> ProgrammingError, conn |-> cn, undone |-> {}]
    ELSE [res |-> Ok,
          conn |-> [cn EXCEPT !.rows = Committed(cn),
                              !.in_transaction = FALSE, !.journal = {}],
          undone |-> (cn.rows \ Committed(cn)) \cup (Committed(cn) \ cn.rows)]

\* Connection.close(): uncommitted changes are lost; closing twice is allowed.
conn_close(cn) ==
    [alive |-> FALSE, rows |-> {}, in_transaction |-> FALSE, journal |-> {}]

\* Cursor.execute(sql, params) on a cursor of connection cn.
cur_execute(cn, q) ==
    IF ~cn.alive THEN [res |-> ProgrammingError, conn |-> cn, rows |-> {}]
    ELSE CASE q.sql = "INSERT" ->
                [res |-> Ok, rows |-> {},
                 conn |-> [implicit_begin(cn) EXCEPT
                              !.rows = cn.rows \cup {Max(cn.rows) + 1}]]
           [] q.sql = "DELETE" ->
                [res |-> Ok, rows |-> {},
                 conn |-> [implicit_begin(cn) EXCEPT
                              !.rows = {}]]
           [] q.sql = "SELECT" ->
                [res |-> Ok, rows |-> cn.rows, conn |-> cn]
           [] q.sql = "BEGIN" ->
                IF cn.in_transaction
                THEN [res |-> OperationalError, rows |-> {}, conn |-> cn]
                ELSE [res |-> Ok, rows |-> {}, conn |-> implicit_begin(cn)]
           [] OTHER ->
                [res |-> OperationalError, rows |-> {}, conn |-> cn]

\* Cursor.executescript(script): commits a pending transaction first, then runs
\* the script's statements, each committed as it runs.
cur_executescript(cn, q) ==
    IF ~cn.alive THEN [res |-> ProgrammingError, conn |-> cn]
    ELSE LET c0 == conn_commit(cn).conn
             r == cur_execute(c0, q)
         IN [res |-> r.res,
             conn |-> IF r.res = Ok THEN conn_commit(r.conn).conn ELSE c0]

\* ---------------------------------------------------- ExecutionContext
\* ExecutionContext.is_open
is_open(cx) == ~cx.closed

\* commit() that lets a closed context pass in silence.
commit_silent(cx, cs) ==
    IF is_open(cx) /\ cx.conn # None
    THEN LET r == conn_commit(cs[cx.conn])
         IN [res |-> r.res, conns |-> [cs EXCEPT ![cx.conn] = r.conn]]
    ELSE [res |-> Ok, conns |-> cs]

\* ExecutionContext.commit
commit(cx, cs) ==
    IF is_open(cx) /\ cx.conn # None
    THEN LET r == conn_commit(cs[cx.conn])
         IN [res |-> r.res, conns |-> [cs EXCEPT ![cx.conn] = r.conn]]
    ELSE [res |-> ConnectionClosed, conns |-> cs]

\* rollback() that never reaches the connection.
rollback_noop(cx, cs) ==
    IF cx.conn = None
    THEN [res |-> AttributeError, conns |-> cs, undone |-> {}]
    ELSE [res |-> IF cs[cx.conn].alive THEN Ok ELSE ProgrammingError,
          conns |-> cs, undone |-> {}]

\* ExecutionContext.rollback
rollback(cx, cs) ==
    IF cx.conn = None
    THEN [res |-> AttributeError, conns |-> cs, undone |-> {}]
    ELSE LET r == conn_rollback(cs[cx.conn])
         IN [res |-> r.res, conns |-> [cs EXCEPT ![cx.conn] = r.conn],
             undone |-> r.undone]

\* execute() that ignores auto_commit.
execute_no_auto_commit(cx, cs, q) ==
    LET r == cur_execute(cs[cx.cur], q)
    IN [res |-> r.res, conns |-> [cs EXCEPT ![cx.cur] = r.conn], rows |-> r.rows,
        log |-> IF r.res = Ok THEN <<>> ELSE <<q>>]

\* execute() whose except clause neither logs nor re-raises, and whose commit
\* of auto_commit runs whatever the statement did.
execute_swallow(cx, cs, q) ==
    LET r == cur_execute(cs[cx.cur], q)
        cs1 == [cs EXCEPT ![cx.cur] = r.conn]
        m == IF truthy(cx.auto_commit) THEN commit(cx, cs1)
             ELSE [res |-> Ok, conns |-> cs1]
    IN [res |-> Ok, conns |-> m.conns, rows |-> r.rows, log |-> <<>>]

\* ExecutionContext.execute: the statement, then the commit of auto_commit;
\* whatever is raised on the way is logged with query and params and re-raised.
execute(cx, cs, q) ==
    LET r == cur_execute(cs[cx.cur], q)
        cs1 == [cs EXCEPT ![cx.cur] = r.conn]
        m == IF r.res = Ok /\ truthy(cx.auto_commit)
             THEN commit(cx, cs1)
             ELSE [res |-> r.res, conns |-> cs1]
    IN [res |-> m.res, conns |-> m.conns, rows |-> r.rows,
        log |-> IF m.res = Ok THEN <<>> ELSE <<q>>]

\* ExecutionContext.executescript: no logging here.
executescript(cx, cs, q) ==
    LET r == cur_executescript(cs[cx.cur], q)
        cs1 == [cs EXCEPT ![cx.cur] = r.conn]
    IN IF r.res = Ok /\ truthy(cx.auto_commit)
       THEN commit(cx, cs1)
       ELSE [res |-> r.res, conns |-> cs1]

\* ExecutionContext.close
close(cx, cs) ==
    IF is_open(cx)
    THEN LET m == IF truthy(cx.auto_commit) THEN commit(cx, cs)
                  ELSE [res |-> Ok, conns |-> cs]
         IN IF m.res # Ok
            THEN [res |-> m.res, ctx |-> cx, conns |-> m.conns]
            ELSE [res |-> Ok,
                  ctx |-> [cx EXCEPT !.conn = None, !.closed = TRUE],
                  conns |-> [m.conns EXCEPT ![cx.conn] = conn_close(@)]]
    ELSE [res |-> Ok, ctx |-> cx, conns |-> cs]

\* ExecutionContext.__exit__
exit(cx, cs) ==
    IF is_open(cx) THEN close(cx, cs)
    ELSE [res |-> Ok, ctx |-> cx, conns |-> cs]

\* ------------------------------------------------------------------ Table
\* The columns every table of the model declares, in declared order.
Columns == <<"ID", "name", "age">>

\* Table.__init__ without a prototype class: rows become namedtuples.
NoProto == "None"

\* Table(name, *columns, id_cols=..., proto=..., **field_map); field_map takes
\* a column name to the attribute of the prototype that holds it.
Table(name, columns, id_cols, proto, field_map) ==
    [name |-> name, columns |-> columns, id_cols |-> id_cols, proto |-> proto,
     field_map |-> field_map]

\* The identity declarations add_table / set_id accept: none, the integer
\* primary key, another column, several columns.
IdCols == {<<>>, <<"ID">>, <<"name">>, <<"ID", "name">>}

\* The mappings add_table accepts: namedtuple rows, a prototype with attributes
\* named as the columns, a prototype with a renamed attribute.
Mappings ==
    {[proto |-> NoProto, field_map |-> <<>>],
     [proto |-> "Person", field_map |-> <<>>],
     [proto |-> "Person", field_map |-> ("name" :> "title")]}

\* The tables a schema may register.
Tables ==
    {Table("person", Columns, ids, m.proto, m.field_map) :
        ids \in IdCols, m \in Mappings}

\* ------------------------------------------- sqlite3 (the rows of one table)
\* The table is created as (ID INTEGER PRIMARY KEY, name, age): ID is the rowid.
IntegrityError == "IntegrityError: constraint failed"

\* sqlite3.ProgrammingError: Incorrect number of bindings supplied
BindingError == "ProgrammingError: Incorrect number of bindings supplied"

ColumnSet == {Columns[k] : k \in 1..Len(Columns)}

RECURSIVE Sorted(_)
Sorted(S) ==
    IF S = {} THEN <<>>
    ELSE LET m == CHOOSE x \in S : \A y \in S : x <= y
         IN <<m>> \o Sorted(S \ {m})

\* column c of the row with rowid id
colval(rows, id, c) == IF c = "rowid" THEN id ELSE rows[id][c]

\* WHERE c1=? AND c2=? ... : NULL equals nothing
sql_where(rows, where, params) ==
    {id \in DOMAIN rows :
        \A k \in 1..Len(where) :
            params[k] # None /\ colval(rows, id, where[k]) = params[k]}

\* the value bound to column c by the column list cols and the values vals
bound(cols, vals, c) ==
    IF \E k \in 1..Len(cols) : cols[k] = c
    THEN vals[CHOOSE k \in 1..Len(cols) : cols[k] = c]
    ELSE None

\* INSERT INTO t (cols) VALUES (?,...) with params
sql_insert(rows, q, params) ==
    LET cols == IF q.columns = <<>> THEN Columns ELSE q.columns
        idv == bound(cols, params, "ID")
        rowid == IF idv = None THEN Max(DOMAIN rows) + 1 ELSE idv
        fail(e) == [res |-> e, rows |-> rows, fetched |-> <<>>, lastrowid |-> None]
    IN IF Len(cols) # q.placeholders THEN fail(OperationalError)
       ELSE IF q.placeholders # Len(params) THEN fail(BindingError)
       ELSE IF idv = EmptyStr \/ rowid \in DOMAIN rows THEN fail(IntegrityError)
       ELSE [res |-> Ok,
             rows |-> [id \in DOMAIN rows \cup {rowid} |->
                          IF id # rowid THEN rows[id]
                          ELSE [c \in ColumnSet |->
                                   IF c = "ID" THEN rowid
                                   ELSE bound(cols, params, c)]],
             fetched |-> <<>>, lastrowid |-> rowid]

\* SELECT cols FROM t WHERE ... with params: the rows in rowid order
sql_select(rows, q, params) ==
    IF Len(q.where) # Len(params)
    THEN [res |-> BindingError, rows |-> rows, fetched |-> <<>>, lastrowid |-> None]
    ELSE LET ids == Sorted(sql_where(rows, q.where, params))
         IN [res |-> Ok, rows |-> rows,
             fetched |-> [k \in 1..Len(ids) |->
                             [j \in 1..Len(q.columns) |-> colval(rows, ids[k], q.columns[j])]],
             lastrowid |-> None]

\* UPDATE t SET c1=?,... WHERE ... with params = new values, then where values
sql_update(rows, q, params) ==
    LET n == Len(q.columns)
        fail(e) == [res |-> e, rows |-> rows, fetched |-> <<>>, lastrowid |-> None]
    IN IF n = 0 THEN fail(OperationalError)
       ELSE IF n + Len(q.where) # Len(params) THEN fail(BindingError)
       ELSE LET hit == sql_where(rows, q.where, SubSeq(params, n + 1, Len(params)))
                idv == bound(q.columns, params, "ID")
                moves == \E k \in 1..n : q.columns[k] = "ID"
                new(id) == [c \in ColumnSet |->
                               IF \E k \in 1..n : q.columns[k] = c
                               THEN bound(q.columns, params, c) ELSE rows[id][c]]
            IN IF hit = {} THEN [res |-> Ok, rows |-> rows, fetched |-> <<>>,
                                 lastrowid |-> None]
               ELSE IF ~moves
               THEN [res |-> Ok,
                     rows |-> [id \in DOMAIN rows |->
                                  IF id \in hit THEN new(id) ELSE rows[id]],
                     fetched |-> <<>>, lastrowid |-> None]
               ELSE IF \/ idv \in {None, EmptyStr}
                       \/ Cardinality(hit) > 1
                       \/ idv \in DOMAIN rows \ hit
               THEN fail(IntegrityError)
               ELSE [res |-> Ok,
                     rows |-> [id \in (DOMAIN rows \ hit) \cup {idv} |->
                                  IF id = idv THEN new(CHOOSE h \in hit : TRUE)
                                  ELSE rows[id]],
                     fetched |-> <<>>, lastrowid |-> None]

\* DELETE FROM t WHERE ... with params
sql_delete(rows, q, params) ==
    IF Len(q.where) # Len(params)
    THEN [res |-> BindingError, rows |-> rows, fetched |-> <<>>, lastrowid |-> None]
    ELSE LET hit == sql_where(rows, q.where, params)
         IN [res |-> Ok, rows |-> [id \in DOMAIN rows \ hit |-> rows[id]],
             fetched |-> <<>>, lastrowid |-> None]

\* cursor.execute(query, params) on the table
sql_execute(rows, q, params) ==
    CASE q.sql = "INSERT" -> sql_insert(rows, q, params)
      [] q.sql = "SELECT" -> sql_select(rows, q, params)
      [] q.sql = "UPDATE" -> sql_update(rows, q, params)
      [] q.sql = "DELETE" -> sql_delete(rows, q, params)

\* ----------------------------------------------------------- QueryBuilder
\* A statement is kept as its parts: the verb, the column list, the number of
\* "?" in VALUES, the columns of the "c=? AND ..." condition.  An omitted or
\* empty column list is <<>>.
pytail(seq, n) == IF n = 0 THEN seq ELSE SubSeq(seq, Len(seq) - n + 1, Len(seq))

\* isinstance(table, Table): a descriptor, not a table name
isinstance_Table(tbl) == "columns" \in DOMAIN tbl

\* what str.join and str.format make of a table given either way
table_name(tbl) == tbl.name

\* One part of the text of a statement: a keyword and what follows it.
Clause(kw, arg) == [kw |-> kw, arg |-> arg]

\* limit is None or a number; where and orderby are <<>> when omitted or ''.
build_select(tbl, where, orderby, limit, columns) ==
    LET cols == IF isinstance_Table(tbl) /\ columns = <<>> THEN tbl.columns
                ELSE columns
    IN [sql |-> "SELECT", columns |-> cols, placeholders |-> 0, where |-> where,
        text |-> <<Clause("SELECT", IF cols # <<>> THEN cols ELSE <<"*">>),
                   Clause("FROM", <<table_name(tbl)>>)>>
                 \o (IF where # <<>> THEN <<Clause("WHERE", where)>> ELSE <<>>)
                 \o (IF orderby # <<>> THEN <<Clause("ORDER BY", orderby)>> ELSE <<>>)
                 \o (IF truthy(limit) THEN <<Clause("LIMIT", <<limit>>)>> ELSE <<>>)]

build_insert_leading(tbl, values, columns) ==
    LET cols == IF isinstance_Table(tbl) /\ columns = <<>> THEN tbl.columns
                ELSE columns
    IN [sql |-> "INSERT",
        columns |-> IF Len(values) < Len(cols) THEN SubSeq(cols, 1, Len(values))
                    ELSE cols,
        placeholders |-> Len(values), where |-> <<>>]

build_insert(tbl, values, columns) ==
    LET cols == IF isinstance_Table(tbl) /\ columns = <<>> THEN tbl.columns
                ELSE columns
    IN [sql |-> "INSERT",
        columns |-> IF Len(values) < Len(cols) THEN pytail(cols, Len(values))
                    ELSE cols,
        placeholders |-> Len(values), where |-> <<>>]

\* columns is <<>> when omitted (None): the descriptor's columns are taken
build_update_record(tbl, where, columns) ==
    [sql |-> "UPDATE",
     columns |-> IF columns = <<>> THEN tbl.columns ELSE columns,
     placeholders |-> 0, where |-> where]

build_delete(tbl, where) ==
    [sql |-> "DELETE", columns |-> <<>>, placeholders |-> 0, where |-> where]

\* ------------------------------------------------ objects and Table.to_obj
\* An object is a function from attribute names to values.
attr_of(field_map, c) == IF c \in DOMAIN field_map THEN field_map[c] ELSE c

\* the tuple insert_object and update_object read from an object: column by
\* column, the attribute the field map names for it
values_of(obj_data, cols, field_map) ==
    [k \in 1..Len(cols) |-> obj_data[attr_of(field_map, cols[k])]]

\* Table.to_obj: a namedtuple of the columns without a prototype; with one,
\* update_obj's setattr in field order, a later column overwriting an earlier
\* one mapped to the same attribute
to_obj_unmapped(tbl, row_tuple, columns) ==
    LET cols == IF columns = <<>> THEN tbl.columns ELSE columns
    IN [a \in {cols[k] : k \in 1..Len(cols)} |->
           row_tuple[Max({k \in 1..Len(cols) : cols[k] = a})]]

to_obj(tbl, row_tuple, columns) ==
    LET cols == IF columns = <<>> THEN tbl.columns ELSE columns
        fm == IF tbl.proto = NoProto THEN <<>> ELSE tbl.field_map
        last_k(a) == Max({k \in 1..Len(cols) : attr_of(fm, cols[k]) = a})
    IN [a \in {attr_of(fm, cols[k]) : k \in 1..Len(cols)} |-> row_tuple[last_k(a)]]

\* ------------------------------------- ExecutionContext, on an open context
\* What a call gives back: the outcome, the rows afterwards, the statements
\* executed, cur.lastrowid, and the object returned if there is one.
Result(res, rows, sql, lastrowid, found, obj) ==
    [res |-> res, rows |-> rows, sql |-> sql, lastrowid |-> lastrowid,
     found |-> found, obj |-> obj]

insert(rows, tbl, values, columns) ==
    LET q == build_insert(tbl, values, columns)
        r == sql_execute(rows, q, values)
    IN Result(r.res, r.rows, <<q.sql>>, r.lastrowid, FALSE, <<>>)

select_object_by_rowid(rows, tbl, ids, columns) ==
    LET id_cols == <<"rowid">>
        q == build_select(tbl, id_cols, <<>>, None, columns)
        r == sql_execute(rows, q, ids)
    IN IF r.res = Ok /\ r.fetched # <<>>
       THEN Result(Ok, rows, <<q.sql>>, None, TRUE, to_obj(tbl, r.fetched[1], columns))
       ELSE Result(r.res, rows, <<q.sql>>, None, FALSE, <<>>)

select_object_by_id(rows, tbl, ids, columns) ==
    LET id_cols == IF tbl.id_cols # <<>> THEN tbl.id_cols ELSE <<"rowid">>
        q == build_select(tbl, id_cols, <<>>, None, columns)
        r == sql_execute(rows, q, ids)
    IN IF r.res = Ok /\ r.fetched # <<>>
       THEN Result(Ok, rows, <<q.sql>>, None, TRUE, to_obj(tbl, r.fetched[1], columns))
       ELSE Result(r.res, rows, <<q.sql>>, None, FALSE, <<>>)

insert_object(rows, tbl, obj_data, columns, field_map) ==
    LET cols == IF columns = <<>> THEN tbl.columns ELSE columns
        values == values_of(obj_data, cols, field_map)
    IN insert(rows, tbl, values, cols)

update_object(rows, tbl, obj_data, columns, field_map) ==
    LET where == tbl.id_cols
        where_values == [k \in 1..Len(where) |-> obj_data[where[k]]]
        cols == IF columns = <<>> THEN tbl.columns ELSE columns
        new_values == values_of(obj_data, cols, field_map)
        q == build_update_record(tbl, where, cols)
        r == sql_execute(rows, q, new_values \o where_values)
    IN Result(r.res, r.rows, <<q.sql>>, None, FALSE, <<>>)

delete_record(rows, tbl, where, values) ==
    LET q == build_delete(tbl, where)
        r == sql_execute(rows, q, values)
    IN Result(r.res, r.rows, <<q.sql>>, None, FALSE, <<>>)

\* delete_object: the identity columns of the table make the condition, and
\* the attributes of the object named like them its values.
delete_object(rows, tbl, obj_data) ==
    LET where == tbl.id_cols
        where_values == [k \in 1..Len(where) |-> obj_data[where[k]]]
    IN delete_record(rows, tbl, where, where_values)

\* ---------------------------------------------------------- TableContext
save_any(rows, tbl, obj, columns) ==
    LET existed == \E k \in 1..Len(tbl.id_cols) : truthy(obj[tbl.id_cols[k]])
    IN IF existed THEN update_object(rows, tbl, obj, columns, tbl.field_map)
       ELSE insert_object(rows, tbl, obj, columns, tbl.field_map)

save(rows, tbl, obj, columns) ==
    LET existed == /\ Len(tbl.id_cols) > 0
                   /\ \A k \in 1..Len(tbl.id_cols) : truthy(obj[tbl.id_cols[k]])
    IN IF existed THEN update_object(rows, tbl, obj, columns, tbl.field_map)
       ELSE insert_object(rows, tbl, obj, columns, tbl.field_map)

\* -------------------------------------------------------------- the calls
Ctx == 1..Len(ctxs)

\* The record of a call: op on context c with argument arg (the sql of a
\* statement, the path out of a with-block) returned or raised res, reported log
\* to the logger, and fetched (select) or discarded (rollback) rows.
Call(op, c, res, arg, log, rows) ==
    [op |-> op, ctx |-> c, res |-> res, arg |-> arg, log |-> log, rows |-> rows]

\* The statements a bounded store can take: rowids stay within RowIds.
Fits(cx, q) ==
    q.sql = "INSERT" => Max(conns[cx.cur].rows) < MaxRows

AcValues == {PyTrue, PyFalse}

\* ExecutionContext(':memory:', schema, auto_commit=ac)
ExecutionContext(ac) ==
    /\ UNCHANGED <<tvars, qvars, dvars>>
    /\ Len(ctxs) < MaxCtx
    /\ Len(conns) < MaxConn
    /\ conns' = Append(conns, connect)
    /\ ctxs' = Append(ctxs, [conn |-> Len(conns) + 1, cur |-> Len(conns) + 1,
                             auto_commit |-> ac, closed |-> FALSE])
    /\ last' = Call("__init__", Len(ctxs) + 1, Ok, "", <<>>, {})

\* double() that connects anew instead of reusing the connection
Double_own_connection(c, ac) ==
    /\ UNCHANGED <<tvars, qvars, dvars>>
    /\ Len(ctxs) < MaxCtx
    /\ ctxs[c].conn # None
    /\ conns' = Append(conns, connect)
    /\ ctxs' = Append(ctxs, [conn |-> Len(conns) + 1, cur |-> Len(conns) + 1,
                             auto_commit |-> ac, closed |-> FALSE])
    /\ last' = Call("double", c, Ok, "", <<>>, {})

\* ctx.double(auto_commit=ac): a new context on the same connection with a
\* cursor of its own; conn.cursor() fails on a closed connection.
Double(c, ac) ==
    /\ UNCHANGED <<tvars, qvars, dvars>>
    /\ Len(ctxs) < MaxCtx
    /\ ctxs[c].conn # None
    /\ IF conns[ctxs[c].conn].alive
       THEN /\ ctxs' = Append(ctxs, [conn |-> ctxs[c].conn, cur |-> ctxs[c].conn,
                                     auto_commit |-> ac, closed |-> FALSE])
            /\ last' = Call("double", c, Ok, "", <<>>, {})
       ELSE /\ ctxs' = ctxs
            /\ last' = Call("double", c, ProgrammingError, "", <<>>, {})
    /\ UNCHANGED conns

\* ctx.auto_commit = v
SetAutoCommit(c, v) ==
    /\ UNCHANGED <<tvars, qvars, dvars>>
    /\ ctxs[c].auto_commit # v
    /\ ctxs' = [ctxs EXCEPT ![c].auto_commit = v]
    /\ last' = Call("auto_commit", c, Ok, "", <<>>, {})
    /\ UNCHANGED conns

Execute(c, q) ==
    /\ UNCHANGED <<tvars, qvars, dvars>>
    /\ Fits(ctxs[c], q)
    /\ LET r == execute(ctxs[c], conns, q)
       IN /\ conns' = r.conns
          /\ last' = Call("execute", c, r.res, q.sql, r.log, r.rows)
    /\ UNCHANGED ctxs

\* ExecutionContext.begin
Begin(c) ==
    /\ UNCHANGED <<tvars, qvars, dvars>>
    /\ LET q == [sql |-> "BEGIN", params |-> <<>>]
           r == execute(ctxs[c], conns, q)
       IN /\ conns' = r.conns
          /\ last' = Call("begin", c, r.res, q.sql, r.log, r.rows)
    /\ UNCHANGED ctxs

\* ExecutionContext.select on a table name: execute(...).fetchall()
Select(c) ==
    /\ UNCHANGED <<tvars, qvars, dvars>>
    /\ LET q == [sql |-> "SELECT", params |-> <<>>]
           r == execute(ctxs[c], conns, q)
       IN /\ conns' = r.conns
          /\ last' = Call("select", c, r.res, q.sql, r.log, r.rows)
    /\ UNCHANGED ctxs

\* ExecutionContext.insert
Insert(c) ==
    /\ UNCHANGED <<tvars, qvars, dvars>>
    /\ LET q == [sql |-> "INSERT", params |-> <<PyTrue>>]
           r == execute(ctxs[c], conns, q)
       IN /\ Fits(ctxs[c], q)
          /\ conns' = r.conns
          /\ last' = Call("insert", c, r.res, q.sql, r.log, r.rows)
    /\ UNCHANGED ctxs

ExecuteScript(c, q) ==
    /\ UNCHANGED <<tvars, qvars, dvars>>
    /\ q.sql \in {"INSERT", "BAD"}
    /\ Fits(ctxs[c], q)
    /\ LET r == executescript(ctxs[c], conns, q)
       IN /\ conns' = r.conns
          /\ last' = Call("executescript", c, r.res, q.sql, <<>>, {})
    /\ UNCHANGED ctxs

Commit(c) ==
    /\ UNCHANGED <<tvars, qvars, dvars>>
    /\ LET r == commit(ctxs[c], conns)
       IN /\ conns' = r.conns
          /\ last' = Call("commit", c, r.res, "", <<>>, {})
    /\ UNCHANGED ctxs

Rollback(c) ==
    /\ UNCHANGED <<tvars, qvars, dvars>>
    /\ LET r == rollback(ctxs[c], conns)
       IN /\ conns' = r.conns
          /\ last' = Call("rollback", c, r.res, "", <<>>, r.undone)
    /\ UNCHANGED ctxs

Close(c) ==
    /\ UNCHANGED <<tvars, qvars, dvars>>
    /\ LET r == close(ctxs[c], conns)
       IN /\ ctxs' = [ctxs EXCEPT ![c] = r.ctx]
          /\ conns' = r.conns
          /\ last' = Call("close", c, r.res, "", <<>>, {})

\* The paths by which a with-block ends; __exit__ runs on each of them.
ExitPaths == {"normal", "return", "raise"}

\* The end of a with-block whose subject is context c ("with c: ..."), the
\* calls made on c before this one being its body; __enter__ returns c as it is.
Exit(c, path) ==
    /\ UNCHANGED <<tvars, qvars, dvars>>
    /\ LET r == exit(ctxs[c], conns)
       IN /\ ctxs' = [ctxs EXCEPT ![c] = r.ctx]
          /\ conns' = r.conns
          /\ last' = Call("__exit__", c, r.res, path, <<>>, {})

\* nothing asked of the QueryBuilder yet
NoQuery == [op |-> ""]

\* no DataSource constructed
NoSource == [path |-> ""]

\* The record of a call through a TableContext: op with positional args (the
\* values of insert, the ids of by_id) or the object given to save; what it
\* returned or raised; the statements it executed.  A by_id whose only id is
\* the lastrowid of the successful insert just before it keeps that insert's
\* values in inserted.
TableCall(op, args, given, r, after_insert, inserted) ==
    [op |-> op, args |-> args, given |-> given, res |-> r.res, sql |-> r.sql,
     lastrowid |-> r.lastrowid, found |-> r.found, obj |-> r.obj,
     after_insert |-> after_insert, inserted |-> inserted]

NoCall == TableCall("", <<>>, <<>>, Result(Ok, <<>>, <<>>, None, FALSE, <<>>), FALSE, <<>>)

Init ==
    /\ ctxs = <<>>
    /\ conns = <<>>
    /\ last = [op |-> "", ctx |-> 0, res |-> Ok, arg |-> "", log |-> <<>>,
               rows |-> {}]
    /\ table = Table("", <<>>, <<>>, NoProto, <<>>)
    /\ store = <<>>
    /\ call = NoCall
    /\ query = NoQuery
    /\ source = NoSource

Next ==
    \/ \E ac \in AcValues : ExecutionContext(ac)
    \/ \E c \in Ctx, ac \in AcValues : Double(c, ac)
    \/ \E c \in Ctx, v \in AcValues : SetAutoCommit(c, v)
    \/ \E c \in Ctx, q \in Statements : Execute(c, q)
    \/ \E c \in Ctx : Begin(c)
    \/ \E c \in Ctx : Select(c)
    \/ \E c \in Ctx : Insert(c)
    \/ \E c \in Ctx, q \in Statements : ExecuteScript(c, q)
    \/ \E c \in Ctx : Commit(c)
    \/ \E c \in Ctx : Rollback(c)
    \/ \E c \in Ctx : Close(c)
    \/ \E c \in Ctx, path \in ExitPaths : Exit(c, path)

Spec == Init /\ [][Next]_vars

\* ------------------------------------------------- claims on ExecutionContext
\* The connection the cursor of context c works on.
ConnOf(c) == conns[ctxs[c].cur]

\* The statement of the given sql text.
Stmt(sql) == CHOOSE q \in Statements : q.sql = sql

\* The calls that go through execute().
ExecOps == {"execute", "select", "insert", "begin"}

\* C1: close() is idempotent: the first close() on an open context releases the
\* connection handle and marks the context closed (after the commit of
\* auto_commit); every later close() returns normally and changes nothing.
C1_CloseIdempotent ==
    [][last'.op = "close" =>
          LET c == last'.ctx
          IN IF is_open(ctxs[c])
             THEN /\ ctxs'[c].closed
                  /\ ctxs'[c].conn = None
                  /\ ~conns'[ctxs[c].cur].alive
             ELSE /\ last'.res = Ok
                  /\ ctxs' = ctxs
                  /\ conns' = conns]_vars

\* C2: commit() on a closed context raises the connection-closed
\* OperationalError and commits nothing; commit() on an open context does not
\* raise that error.
C2_CommitOnClosedFails ==
    [][last'.op = "commit" =>
          IF ctxs[last'.ctx].closed
          THEN last'.res = ConnectionClosed /\ conns' = conns
          ELSE last'.res # ConnectionClosed]_vars

C2_Witness ==
    /\ last.op = "commit"
    /\ ctxs[last.ctx].closed
    /\ last.res = ConnectionClosed

\* C3: after close(), execute, select, insert, begin, rollback and executescript
\* on that context all fail with a connection-closed error, never succeed and
\* never fail with another kind of error.
C3_ClosedContextRejectsAll ==
    (/\ last.op \in ExecOps \cup {"rollback", "executescript"}
     /\ ctxs[last.ctx].closed)
        => last.res \in ClosedErrors

\* C4: when a with-block ends, by whatever path, its context is closed and its
\* connection released.
C4_ScopedAlwaysClosed ==
    last.op = "__exit__" =>
        /\ ctxs[last.ctx].closed
        /\ ctxs[last.ctx].conn = None
        /\ ~ConnOf(last.ctx).alive

\* C5: with auto_commit true a successful execute() leaves nothing uncommitted
\* on the connection, so a rollback() right after it changes nothing.
C5_AutoCommitCommitsAtOnce ==
    (/\ last.op \in ExecOps
     /\ last.res = Ok
     /\ truthy(ctxs[last.ctx].auto_commit))
        => /\ ~ConnOf(last.ctx).in_transaction
           /\ rollback(ctxs[last.ctx], conns).conns = conns

C5_Witness ==
    /\ last.op = "execute"
    /\ last.arg = "INSERT"
    /\ last.res = Ok
    /\ truthy(ctxs[last.ctx].auto_commit)
    /\ ConnOf(last.ctx).rows # {}

\* C6: an execute() whose statement the store rejects raises the store's error,
\* after reporting the query and its parameters to the logger; it commits
\* nothing and leaves the context as open as it was.
C6_RejectedExecuteReportsAndRaises ==
    [][(/\ last'.op \in ExecOps
        /\ cur_execute(ConnOf(last'.ctx), Stmt(last'.arg)).res # Ok)
          => /\ last'.res = cur_execute(ConnOf(last'.ctx), Stmt(last'.arg)).res
             /\ last'.log = <<Stmt(last'.arg)>>
             /\ conns' = conns
             /\ ctxs' = ctxs]_vars

C6_Witness ==
    /\ last.op = "execute"
    /\ last.arg = "BAD"
    /\ last.res = OperationalError
    /\ last.log = <<Stmt("BAD")>>
    /\ is_open(ctxs[last.ctx])
    /\ ConnOf(last.ctx).in_transaction

\* C7: with auto_commit false a write is pending, not committed, and a select
\* on the same context sees it; after rollback() the connection holds, and a
\* select on the context returns, exactly the rows of the last commit.
C7_RollbackRestoresLastCommit ==
    [][LET c == last'.ctx
           sel == execute(ctxs'[c], conns', Stmt("SELECT"))
       IN /\ (/\ last'.op \in ExecOps
              /\ last'.arg \in {"INSERT", "DELETE"}
              /\ last'.res = Ok
              /\ ~truthy(ctxs[c].auto_commit))
                => /\ Committed(conns'[ctxs[c].cur]) = Committed(ConnOf(c))
                   /\ conns'[ctxs[c].cur].rows =
                          cur_execute(ConnOf(c), Stmt(last'.arg)).conn.rows
                   /\ sel.res = Ok
                   /\ sel.rows = conns'[ctxs[c].cur].rows
          /\ (/\ last'.op = "rollback"
              /\ last'.res = Ok
              /\ ~truthy(ctxs[c].auto_commit))
                => /\ conns'[ctxs[c].cur].rows = Committed(ConnOf(c))
                   /\ sel.res = Ok
                   /\ sel.rows = Committed(ConnOf(c))]_vars

C7_Witness ==
    /\ last.op = "rollback"
    /\ last.res = Ok
    /\ ~truthy(ctxs[last.ctx].auto_commit)
    /\ last.rows # {}

\* C8: rollback() on an open context with no active transaction returns
\* normally and changes neither the store nor the context.
C8_RollbackWithoutTransactionIsNoOp ==
    [][(/\ last'.op = "rollback"
        /\ is_open(ctxs[last'.ctx])
        /\ ~ConnOf(last'.ctx).in_transaction)
          => /\ last'.res = Ok
             /\ conns' = conns
             /\ ctxs' = ctxs]_vars

C25_OpenContextHasConnection ==
    \A c \in 1..Len(ctxs) :
        is_open(ctxs[c]) =>
            /\ ConnOf(c).alive
            /\ execute(ctxs[c], conns, Stmt("SELECT")).res = Ok

\* C30: a statement that a context made by double() merely executes does not
\* commit what its source context, with auto_commit false, has pending: the
\* committed rows stay as they were, so rollback() on the source still undoes
\* every write of the source since its last commit.  Contexts are numbered as
\* they are made, so of two contexts on one connection the later is the double.
C30_DoubleDoesNotCommitSource ==
    [][\A a, b \in 1..Len(ctxs) :
           (/\ a < b
            /\ is_open(ctxs[a]) /\ is_open(ctxs[b])
            /\ ctxs[a].conn = ctxs[b].conn
            /\ ~truthy(ctxs[a].auto_commit)
            /\ ConnOf(a).in_transaction
            /\ last'.ctx = b
            /\ last'.op \in ExecOps
            /\ last'.arg = "SELECT"
            /\ last'.res = Ok)
             => /\ Committed(conns'[ctxs[a].cur]) = Committed(ConnOf(a))
                /\ rollback(ctxs'[a], conns').conns[ctxs[a].cur].rows
                       = Committed(ConnOf(a))]_vars

\* ------------------------------------------- the calls through a TableContext
\* One table of a schema, bound to an open context on a live connection: what
\* the calls below read and write is what that connection sees, committed or
\* not.

\* the values given to insert: ID, name, age, or the trailing ones
InsertValues ==
    {<<>>} \cup {<<age>> : age \in {2}}
           \cup {<<name, age>> : name \in {1, 2}, age \in {2}}
           \cup {<<id, name, age>> : id \in {None, 1, 2}, name \in {1, 2}, age \in {2}}

\* the ids given to by_id
IdLists ==
    {<<>>} \cup {<<id>> : id \in {None, 0, 1, 2, 3}}
           \cup {<<id, name>> : id \in {1, 2}, name \in {1, 2}}

\* the objects given to save
Objects ==
    [{"ID", "name", "age", "title"} -> {None, PyFalse, EmptyStr, 1, 2}]

SavedObjects ==
    {o \in Objects : /\ o["ID"] \in {None, PyFalse, 1, 2}
                     /\ o["name"] \in {None, EmptyStr, 1}
                     /\ o["age"] = 2
                     /\ o["title"] = 1}

\* TableContext.insert(*values)
TableInsert(values) ==
    /\ LET r == insert(store, table, values, <<>>)
       IN /\ Cardinality(DOMAIN r.rows) <= MaxStored
          /\ Max(DOMAIN r.rows) <= MaxStored + 1
          /\ store' = r.rows
          /\ call' = TableCall("insert", values, <<>>, r, FALSE, <<>>)
    /\ UNCHANGED <<table, cvars, qvars, dvars>>

\* TableContext.by_id(*ids)
ById(ids) ==
    /\ LET r == select_object_by_id(store, table, ids, <<>>)
           after_insert == /\ call.op = "insert"
                           /\ call.res = Ok
                           /\ ids = <<call.lastrowid>>
       IN call' = TableCall("by_id", ids, <<>>, r, after_insert,
                            IF after_insert THEN call.args ELSE <<>>)
    /\ UNCHANGED <<table, store, cvars, qvars, dvars>>

\* TableContext.save(obj)
Save(obj) ==
    /\ LET r == save(store, table, obj, <<>>)
       IN /\ Cardinality(DOMAIN r.rows) <= MaxStored
          /\ Max(DOMAIN r.rows) <= MaxStored + 1
          /\ store' = r.rows
          /\ call' = TableCall("save", <<>>, obj, r, FALSE, <<>>)
    /\ UNCHANGED <<table, cvars, qvars, dvars>>

\* TableContext.delete()
Delete ==
    /\ store # <<>>
    /\ LET r == delete_record(store, table, <<>>, <<>>)
       IN /\ store' = r.rows
          /\ call' = TableCall("delete", <<>>, <<>>, r, FALSE, <<>>)
    /\ UNCHANGED <<table, cvars, qvars, dvars>>

\* the objects given to delete_obj
DeletedObjects ==
    {o \in Objects : /\ o["ID"] \in {1, 2}
                     /\ o["name"] \in {1, 2}
                     /\ o["age"] = 2
                     /\ o["title"] = 1}

\* TableContext.delete_obj(obj)
DeleteObj(obj) ==
    /\ LET r == delete_object(store, table, obj)
       IN /\ store' = r.rows
          /\ call' = TableCall("delete_obj", <<>>, obj, r, FALSE, <<>>)
    /\ UNCHANGED <<table, cvars, qvars, dvars>>

InitTable ==
    /\ ctxs = <<>>
    /\ conns = <<>>
    /\ last = [op |-> "", ctx |-> 0, res |-> Ok, arg |-> "", log |-> <<>>,
               rows |-> {}]
    /\ table \in Tables
    /\ store = <<>>
    /\ call = NoCall
    /\ query = NoQuery
    /\ source = NoSource

NextTable ==
    \/ \E values \in InsertValues : TableInsert(values)
    \/ \E ids \in IdLists : ById(ids)
    \/ \E obj \in SavedObjects : Save(obj)
    \/ Delete
    \/ \E obj \in DeletedObjects : DeleteObj(obj)

SpecTable == InitTable /\ [][NextTable]_vars

\* ------------------------------------------------ calls on the QueryBuilder
\* a table given by its name only
TableName(name) == [name |-> name]

\* The tables given to the builder: a descriptor with columns, a descriptor
\* before add_fields, a table name.
BuilderTables ==
    {Table("person", Columns, <<"ID">>, "Person", <<>>),
     Table("hobby", <<>>, <<>>, NoProto, <<>>),
     TableName("person")}

ColumnLists == {<<>>, <<"name">>, <<"name", "age">>}

Conditions == {<<>>, <<"ID">>, <<"ID", "name">>}

OrderBys == {<<>>, <<"age">>}

Limits == {None, 0, 1, 2}

\* n values, n up to MaxValues
ValueLists == {[k \in 1..n |-> k] : n \in 0..MaxValues}

\* QueryBuilder.build_select(table, where, orderby, limit, columns)
BuildSelect(tbl, where, orderby, limit, columns) ==
    /\ query' = [op |-> "build_select", tbl |-> tbl, where |-> where,
                 orderby |-> orderby, limit |-> limit, columns |-> columns,
                 q |-> build_select(tbl, where, orderby, limit, columns)]
    /\ UNCHANGED <<cvars, tvars, dvars>>

\* QueryBuilder.build_insert(table, values, columns)
BuildInsert(tbl, values, columns) ==
    /\ query' = [op |-> "build_insert", tbl |-> tbl, values |-> values,
                 columns |-> columns, q |-> build_insert(tbl, values, columns)]
    /\ UNCHANGED <<cvars, tvars, dvars>>

\* QueryBuilder.build_delete(table, where)
BuildDelete(tbl, where) ==
    /\ query' = [op |-> "build_delete", tbl |-> tbl, where |-> where,
                 q |-> build_delete(tbl, where)]
    /\ UNCHANGED <<cvars, tvars, dvars>>

\* ExecutionContext.update_record(table, new_values, where, where_values,
\* columns) on a descriptor: the statement is built and executed.
UpdateRecord(tbl, new_values, where, where_values, columns) ==
    /\ isinstance_Table(tbl)
    /\ LET q == build_update_record(tbl, where, columns)
           r == sql_execute(store, q, new_values \o where_values)
       IN /\ store' = r.rows
          /\ query' = [op |-> "update_record", tbl |-> tbl, where |-> where,
                       columns |-> columns, q |-> q, sent |-> <<q.sql>>,
                       res |-> r.res]
    /\ UNCHANGED <<table, call, cvars, dvars>>

\* the descriptors objects are marshaled for: the registered ones, one mapping
\* two columns to the same attribute, one with a field map and no prototype
MarshalTables ==
    Tables \cup {Table("person", Columns, <<"ID">>, "Person", "name" :> "age"),
                 Table("person", Columns, <<>>, NoProto, "name" :> "title")}

\* An object is read into a row as insert_object and update_object read it,
\* and Table.to_obj builds an object from that row, with the same columns.
Marshal(tbl, obj, columns) ==
    /\ LET cols == IF columns = <<>> THEN tbl.columns ELSE columns
           row == values_of(obj, cols, tbl.field_map)
       IN query' = [op |-> "marshal", tbl |-> tbl, columns |-> columns,
                    given |-> obj, row |-> row, obj |-> to_obj(tbl, row, columns)]
    /\ UNCHANGED <<cvars, tvars, dvars>>

NextQuery ==
    \/ \E tbl \in MarshalTables, obj \in SavedObjects, columns \in ColumnLists :
            Marshal(tbl, obj, columns)
    \/ \E tbl \in BuilderTables, where \in Conditions, orderby \in OrderBys,
          limit \in Limits, columns \in ColumnLists :
            BuildSelect(tbl, where, orderby, limit, columns)
    \/ \E tbl \in BuilderTables, values \in ValueLists, columns \in ColumnLists :
            BuildInsert(tbl, values, columns)
    \/ \E tbl \in BuilderTables, where \in Conditions : BuildDelete(tbl, where)
    \/ \E tbl \in BuilderTables, new_values \in ValueLists, where \in Conditions,
          where_values \in ValueLists, columns \in ColumnLists :
            UpdateRecord(tbl, new_values, where, where_values, columns)

SpecQuery == Init /\ [][NextQuery]_vars

\* ------------------------------------------------- claims on QueryBuilder

\* the column list a builder works from: the one given, else the descriptor's
Given(tbl, columns) ==
    IF columns = <<>> /\ "columns" \in DOMAIN tbl THEN tbl.columns ELSE columns

\* C12: build_insert with n values, 0 <= n < len(columns), names exactly the
\* trailing n columns of the column list, in order; and the number of
\* placeholders is n for every n.
C12_InsertNamesTrailingColumns ==
    query.op = "build_insert" =>
        LET cols == Given(query.tbl, query.columns)
            n == Len(query.values)
        IN /\ query.q.placeholders = n
           /\ n < Len(cols) =>
                  query.q.columns = [k \in 1..n |-> cols[Len(cols) - n + k]]

\* ------------------------------------------------- claims on TableContext

\* C9: save(obj) executes an UPDATE exactly when the table declares at least
\* one identity column and the object's attribute of every identity column is
\* truthy, and an INSERT in every other case; it executes nothing else, so no
\* statement reads the store to decide.
C9_SaveRoutesByIdentity ==
    call.op = "save" =>
        LET every == /\ Len(table.id_cols) >= 1
                     /\ \A k \in 1..Len(table.id_cols) :
                            call.given[table.id_cols[k]] \notin {None, 0, EmptyStr}
        IN call.sql = IF every THEN <<"UPDATE">> ELSE <<"INSERT">>

\* a save on a table with two identity columns, both set on the object, that
\* updated the row they name
C9_Witness ==
    /\ call.op = "save"
    /\ Len(table.id_cols) = 2
    /\ call.sql = <<"UPDATE">>
    /\ call.res = Ok
    /\ \E id \in DOMAIN store : /\ id = call.given["ID"]
                                /\ store[id]["name"] = call.given["name"]

\* the attribute of the returned object that holds column c
AttrOf(c) ==
    IF table.proto # NoProto /\ c \in DOMAIN table.field_map
    THEN table.field_map[c] ELSE c

\* by_id(lastrowid) right after a successful insert(values) returned an object
\* whose attributes mapped from the columns the values were bound to, the
\* trailing ones, equal the values in column order; a None given for the
\* integer primary key is stored as the new rowid.
ReadsBack ==
    /\ call.res = Ok
    /\ call.found
    /\ LET n == Len(call.inserted)
           first == Len(table.columns) - n
       IN \A k \in 1..n :
              LET c == table.columns[first + k]
                  v == call.inserted[k]
              IN call.obj[AttrOf(c)] =
                     IF c = "ID" /\ v = None THEN call.args[1] ELSE v

\* C10 (as stated): for every registered table, by_id(lastrowid) right after a
\* successful insert(values) on the same context returns an object whose mapped
\* attributes equal the values in declared column order.
C10_InsertThenByIdentity ==
    (call.op = "by_id" /\ call.after_insert) => ReadsBack

\* The identity of the table is the store's rowid: no identity column is
\* declared, or the integer primary key alone.
IdentityIsRowid == table.id_cols \in {<<>>, <<"ID">>}

\* C10 (amended): for every registered table whose identity is the store's
\* rowid, by_id(lastrowid) right after a successful insert(values) on the same
\* context returns an object whose mapped attributes equal the values in
\* declared column order.
C10_InsertThenByRowid ==
    (call.op = "by_id" /\ call.after_insert /\ IdentityIsRowid) => ReadsBack

\* by_id(lastrowid) after an insert of two values into a table with a renamed
\* attribute and the integer primary key as identity
C10_Witness ==
    /\ call.op = "by_id"
    /\ call.after_insert
    /\ table.id_cols = <<"ID">>
    /\ table.field_map # <<>>
    /\ Len(call.inserted) = 2
    /\ call.inserted[1] # call.inserted[2]
    /\ call.found
    /\ call.obj["title"] = call.inserted[1]
    /\ call.obj["age"] = call.inserted[2]

\* The rows of the store that by_id(ids) asks for: those whose every identity
\* column holds the id at the same position, the rowid standing in when the
\* table declares no identity column.  The comparison is the store's: a None
\* id is NULL and equals nothing.
Identified(ids) ==
    LET cols == IF table.id_cols = <<>> THEN <<"rowid">> ELSE table.id_cols
    IN {id \in DOMAIN store :
           \A k \in 1..Len(cols) :
               /\ ids[k] # None
               /\ ids[k] = IF cols[k] = "rowid" THEN id ELSE store[id][cols[k]]}

\* C11: by_id with one id per identity column (one id when none is declared)
\* never raises; it returns an object exactly when some row has every identity
\* column (or its rowid) equal to the id at the same position, and the object
\* returned holds the columns of such a row; otherwise it returns None.
C11_ByIdentityMatchesOrNone ==
    (call.op = "by_id" /\ Len(call.args) = Len(IF table.id_cols = <<>>
                                               THEN <<"rowid">> ELSE table.id_cols)) =>
        /\ call.res = Ok
        /\ call.found <=> Identified(call.args) # {}
        /\ call.found =>
               \E id \in Identified(call.args) :
                   \A k \in 1..Len(table.columns) :
                       call.obj[AttrOf(table.columns[k])] = store[id][table.columns[k]]
        /\ ~call.found => call.obj = <<>>

\* a by_id on a table with two identity columns that found the row, its rowid
\* being different from the second id
C11_Witness ==
    /\ call.op = "by_id"
    /\ table.id_cols = <<"ID", "name">>
    /\ call.res = Ok
    /\ call.found
    /\ call.args[1] # call.args[2]
    /\ call.obj["ID"] = call.args[1]

\* C24: delete_obj(obj) removes only rows whose identity columns hold the
\* values obj has for them and leaves every other row as it was, on every
\* table; on a table that declares no identity column the identity of a row
\* is its rowid, which this store keeps in ID.
C24_DeleteObjectOnlyIdentified ==
    [][(call'.op = "delete_obj" /\ call'.res = Ok) =>
           LET obj == call'.given
               ids == IF table.id_cols = <<>> THEN <<obj["ID"]>>
                      ELSE [k \in 1..Len(table.id_cols) |-> obj[table.id_cols[k]]]
           IN /\ DOMAIN store' \subseteq DOMAIN store
              /\ \A id \in DOMAIN store' : store'[id] = store[id]
              /\ \A id \in DOMAIN store \ DOMAIN store' : id \in Identified(ids)]_vars

\* C13: an UPDATE of a record with zero columns is rejected with InvalidSchema:
\* no statement is produced and nothing is sent to the store.
C13_ZeroColumnUpdateRejected ==
    (query.op = "update_record" /\ Given(query.tbl, query.columns) = <<>>) =>
        /\ query.res = "InvalidSchema"
        /\ query.sent = <<>>

\* the keywords of a statement, in the order of its text
Keywords(text) == [k \in 1..Len(text) |-> text[k].kw]

\* what follows keyword kw in the text
After(text, kw) == text[CHOOSE k \in 1..Len(text) : text[k].kw = kw].arg

\* C14: build_select gives SELECT <columns or *> FROM <table>, then WHERE, ORDER
\* BY and LIMIT in that order, each present exactly when its argument was given
\* (a limit of 0 is given); the columns are those given, else the descriptor's,
\* and '*' only when there is no column list.
C14_SelectClauses ==
    query.op = "build_select" =>
        LET text == query.q.text
            cols == Given(query.tbl, query.columns)
        IN /\ Keywords(text) =
                  <<"SELECT", "FROM">>
                  \o (IF query.where # <<>> THEN <<"WHERE">> ELSE <<>>)
                  \o (IF query.orderby # <<>> THEN <<"ORDER BY">> ELSE <<>>)
                  \o (IF query.limit # None THEN <<"LIMIT">> ELSE <<>>)
           /\ After(text, "SELECT") = IF cols # <<>> THEN cols ELSE <<"*">>
           /\ After(text, "FROM") = <<query.tbl.name>>
           /\ query.where # <<>> => After(text, "WHERE") = query.where
           /\ query.orderby # <<>> => After(text, "ORDER BY") = query.orderby
           /\ query.limit # None => After(text, "LIMIT") = <<query.limit>>

\* C15: an object that has the attribute of every mapped column is read into
\* a row through the field map, and Table.to_obj on that row with the same
\* columns, prototype and field map gives an object holding, for every column,
\* the value the first object held for it.
C15_MarshalRoundTrip ==
    query.op = "marshal" =>
        LET tbl == query.tbl
            cols == Given(tbl, query.columns)
            held(c) == IF c \in DOMAIN tbl.field_map THEN tbl.field_map[c] ELSE c
            holds(c) == IF tbl.proto # NoProto THEN held(c) ELSE c
        IN \A k \in 1..Len(cols) :
               /\ holds(cols[k]) \in DOMAIN query.obj
               /\ query.obj[holds(cols[k])] = query.given[held(cols[k])]

\* a round trip under a field map that renames a column, the renamed attribute
\* holding a value different from the attribute named like the column
C15_Witness ==
    /\ query.op = "marshal"
    /\ query.tbl.proto # NoProto
    /\ "name" \in DOMAIN query.tbl.field_map
    /\ query.tbl.field_map["name"] = "title"
    /\ query.given["name"] # query.given["title"]
    /\ query.columns = <<>>
    /\ query.obj["title"] = query.given["title"]

\* ------------------------------------------------------ Database (the schema)
\* A setup file is known by its path and a setup script by its text.  What a
\* script does to the store is what matters to open(): it writes to the
\* database, or (a PRAGMA, a SELECT) it leaves the database as it found it.
SETUP_FILE == "init_script.sql"
SETUP_SCRIPT == "INSERT INTO person, school"
PRAGMA_SCRIPT == "PRAGMA foreign_keys = ON"
ReadOnlyScripts == {PRAGMA_SCRIPT}
Writes(script) == script \notin ReadOnlyScripts

\* A text argument (a script, a path, an alias) is a string; "" stands for
\* None and for the empty string alike, which the code tests by truth value.
NoText == ""
is_set(text) == text # NoText

\* Database.__init__: no table, the file and the script given as arguments,
\* auto_commit at its default.  methods are the names dir(schema) has besides
\* its tables.
Database(setup_script, setup_file) ==
    [setup_files |-> IF is_set(setup_file) THEN <<setup_file>> ELSE <<>>,
     setup_scripts |-> IF is_set(setup_script) THEN <<setup_script>> ELSE <<>>,
     tables |-> <<>>, ntables |-> 0, methods |-> {"ctx"}, added |-> 0,
     auto_commit |-> PyTrue]

\* schema=None: a DataSource that has no schema attached
NoSchema ==
    [setup_files |-> <<>>, setup_scripts |-> <<>>, tables |-> <<>>, ntables |-> 0,
     methods |-> {}, added |-> 0, auto_commit |-> None]

add_file(schema, setup_file) ==
    [schema EXCEPT !.setup_files = Append(@, setup_file)]

add_script(schema, setup_script) ==
    [schema EXCEPT !.setup_scripts = Append(@, setup_script)]

\* add_table: a new Table descriptor (known by its number) is registered under
\* the name and, when one is given, under the alias; an earlier registration
\* of either name is replaced.
add_table(schema, name, alias) ==
    LET tbl_obj == schema.ntables + 1
        named == (name :> tbl_obj) @@ schema.tables
    IN [schema EXCEPT !.ntables = tbl_obj,
                      !.tables = IF is_set(alias) THEN (alias :> tbl_obj) @@ named
                                 ELSE named]

\* The schema classes of the tests: the base Schema and its subclasses.
\* Each __init__ calls super().__init__ first and then adds its own files,
\* scripts and tables; super() follows the method resolution order.
Classes == {"Schema", "SchemaDemo", "SchemaAB"}

mro(cls) ==
    CASE cls = "Schema" -> <<>>
      [] cls = "SchemaDemo" -> <<"SchemaDemo">>
      [] cls = "SchemaAB" -> <<"SchemaAB", "SchemaB", "SchemaA">>

RECURSIVE init(_, _, _)
init(classes, setup_script, setup_file) ==
    IF classes = <<>> THEN Database(setup_script, setup_file)
    ELSE LET super == init(Tail(classes), setup_script, setup_file)
         IN CASE Head(classes) = "SchemaDemo" ->
                   add_table(add_table(add_table(add_table(super,
                       "person", NoText), "hobby", NoText), "school", "college"),
                       "diary", NoText)
              [] Head(classes) = "SchemaA" ->
                   add_table(add_script(add_file(super, "schemaA.sql"),
                                        "INSERT INTO person"),
                             "person", NoText)
              [] Head(classes) = "SchemaB" ->
                   add_table(add_table(add_script(add_file(super, "schemaB.sql"),
                                                  "INSERT INTO hobby"),
                                       "hobby", NoText),
                             "person_hobby", NoText)
              [] Head(classes) = "SchemaAB" ->
                   [add_script(super, "INSERT INTO person_hobby")
                       EXCEPT !.methods = @ \cup {"all_hobby", "find_hobby"}]

\* The schemas a DataSource is given: each class, constructed without setup
\* arguments, with the script and the file of the tests, or with a script
\* that only sets a PRAGMA.
SetupArguments ==
    {<<NoText, NoText>>, <<SETUP_SCRIPT, SETUP_FILE>>, <<PRAGMA_SCRIPT, NoText>>}

Schemas ==
    {init(mro(cls), given[1], given[2]) : cls \in Classes, given \in SetupArguments}

\* ------------------------------------------------------------- DataSource
MEMORY == ":memory:"
TEST_DB == "test.db"

\* The file at the path of a DataSource: whether it exists, and what the
\* scripts that wrote to the database left in it.  A database nothing was
\* written to is a file of size zero.
File(exists, content) == [exists |-> exists, content |-> content]
isfile(file) == file.exists
getsize(file) == Len(file.content)

\* A database under setup: its content and the scripts executed on it so far.
\* cur.executescript(script) runs the script; only a script that writes
\* changes the content.
executescript_on(db, script) ==
    [content |-> IF Writes(script) THEN Append(db.content, script) ELSE db.content,
     log |-> Append(db.log, script)]

RECURSIVE executescripts(_, _)
executescripts(db, scripts) ==
    IF scripts = <<>> THEN db
    ELSE executescripts(executescript_on(db, Head(scripts)), Tail(scripts))

\* _read_file: the text of a setup file, known here by the path of the file.
read_file(path) == path

\* _setup with the scripts before the files
setup_scripts_first(db, schema) ==
    executescripts(executescripts(db, schema.setup_scripts),
                   [k \in DOMAIN schema.setup_files |-> read_file(schema.setup_files[k])])

\* _setup: every setup file, then every setup script, on the cursor of exe.
setup(db, schema) ==
    executescripts(executescripts(db,
                       [k \in DOMAIN schema.setup_files |-> read_file(schema.setup_files[k])]),
                   schema.setup_scripts)

\* An ExecutionContext as DataSource and the table bindings see it: the
\* database it is connected to (the file, or a private in-memory database with
\* its own content), whether it is closed and how often its connection was
\* closed, its auto_commit, and the TableContext objects set on it as
\* attributes.
OpenedContext(in_memory, content, auto_commit) ==
    [in_memory |-> in_memory, content |-> content, closed |-> FALSE,
     closes |-> 0, bindings |-> <<>>, auto_commit |-> auto_commit]

\* ExecutionContext.close on such a context
ctx_close(exe) ==
    IF ~exe.closed THEN [exe EXCEPT !.closed = TRUE, !.closes = @ + 1] ELSE exe

\* How open() finds the store before it connects.
Found(src) ==
    IF src.path = MEMORY THEN "memory"
    ELSE IF ~isfile(src.file) THEN "absent"
    ELSE IF getsize(src.file) = 0 THEN "empty"
    ELSE "used"

\* DataSource.open(auto_commit): an auto_commit left out (None) is taken from
\* the schema when there is one; connect (sqlite3 creates a missing file,
\* empty), then run the setup when the path is the in-memory name, or no file,
\* or an empty one.  setups counts the calls that executed a script on the
\* file.
open(src, auto_commit) ==
    LET in_memory == src.path = MEMORY
        ac == IF auto_commit = None /\ src.schema # NoSchema
              THEN src.schema.auto_commit ELSE auto_commit
        file == IF in_memory THEN src.file ELSE File(TRUE, src.file.content)
        fresh == [content |-> IF in_memory THEN <<>> ELSE file.content, log |-> <<>>]
        required == is_set(src.path)
                    /\ (in_memory \/ ~isfile(file) \/ getsize(file) = 0)
        db == IF required THEN setup(fresh, src.schema) ELSE fresh
        exe == OpenedContext(in_memory, IF in_memory THEN db.content ELSE <<>>, ac)
    IN [source |-> [src EXCEPT
                       !.file = IF in_memory THEN file ELSE File(TRUE, db.content),
                       !.opened = Append(@, exe),
                       !.setups = IF ~in_memory /\ db.log # <<>> THEN @ + 1 ELSE @],
        exe |-> Len(src.opened) + 1, executed |-> db.log, found |-> Found(src),
        created |-> TRUE]

\* __default_ctx that opens a context at every call
default_ctx_fresh(src) ==
    LET o == open(src, None) IN [o EXCEPT !.source.default_ctx_obj = o.exe]

\* __default_ctx: the default context, opened when there is none yet.
default_ctx(src) ==
    IF src.default_ctx_obj = 0
    THEN LET o == open(src, None) IN [o EXCEPT !.source.default_ctx_obj = o.exe]
    ELSE [source |-> src, exe |-> src.default_ctx_obj, executed |-> <<>>,
          found |-> "", created |-> FALSE]

\* DataSource.__del__
del_source(src) ==
    IF src.default_ctx_obj # 0
    THEN [src EXCEPT !.opened[src.default_ctx_obj] = ctx_close(@), !.released = TRUE]
    ELSE [src EXCEPT !.released = TRUE]

\* A TableContext: the Table descriptor and the context it is bound to; id
\* tells one TableContext object from another: the context and the name it was
\* made for, and how many were made for them before.
TableContext(tbl, ctx, id) == [table |-> tbl, ctx |-> ctx, id |-> id]
NoBinding == TableContext(0, 0, <<>>)

made(exe, name) ==
    IF name \in DOMAIN exe.bindings THEN exe.bindings[name].id[3] ELSE 0

\* the methods of ExecutionContext used by name below
ContextMethods == {"select", "close"}

\* getattr(ctx, name) that binds the table anew at every access
ctx_getattr_uncached(src, i, name) ==
    IF name \in DOMAIN src.schema.tables
    THEN LET b == TableContext(src.schema.tables[name], i,
                               <<i, name, made(src.opened[i], name) + 1>>)
         IN [source |-> [src EXCEPT !.opened[i].bindings = (name :> b) @@ @],
             res |-> Ok, ret |-> b]
    ELSE [source |-> src, ret |-> NoBinding,
          res |-> IF name \in src.schema.methods THEN Ok ELSE AttributeError]

\* getattr(ctx, name): an attribute of the context itself (a method, a
\* TableContext set earlier) is found by the normal lookup; otherwise
\* ExecutionContext.__getattr__ binds the table registered under the name and
\* sets the binding as an attribute, or hands out the schema's own attribute.
ctx_getattr(src, i, name) ==
    IF name \in ContextMethods
    THEN [source |-> src, res |-> Ok, ret |-> NoBinding]
    ELSE IF name \in DOMAIN src.opened[i].bindings
    THEN [source |-> src, res |-> Ok, ret |-> src.opened[i].bindings[name]]
    ELSE IF name \in DOMAIN src.schema.tables
    THEN LET b == TableContext(src.schema.tables[name], i,
                               <<i, name, made(src.opened[i], name) + 1>>)
         IN [source |-> [src EXCEPT !.opened[i].bindings = (name :> b) @@ @],
             res |-> Ok, ret |-> b]
    ELSE [source |-> src, ret |-> NoBinding,
          res |-> IF name \in src.schema.methods THEN Ok ELSE AttributeError]

\* ------------------------------------------------- the calls on a DataSource
\* DataSource.__init__, with the file as it is when the owner is constructed.
\* constructed counts the default contexts made, returned holds the contexts
\* the attribute access of the owner went to.  The record of a call holds the
\* auto_commit given to open(), None when it was left out.
SourceCall(op, ctx, name, res, executed, found, ret) ==
    [op |-> op, ctx |-> ctx, name |-> name, res |-> res, executed |-> executed,
     found |-> found, ret |-> ret, auto_commit |-> None, given |-> 0]

DataSource(db_path, schema, file) ==
    [path |-> db_path, schema |-> schema, file |-> file, opened |-> <<>>,
     default_ctx_obj |-> 0, released |-> FALSE, setups |-> 0,
     constructed |-> 0, returned |-> {}, writes |-> 0,
     last |-> SourceCall("", 0, NoText, Ok, <<>>, "", NoBinding)]

\* the file before the first open(): none, an empty one, one set up earlier
Files == {File(FALSE, <<>>), File(TRUE, <<>>), File(TRUE, <<"CREATE TABLE">>)}

Opened == 1..MaxOpen
OwnerNames == {"select", "nothing"}
ContextNames == {"person", "college"}

\* ds.open(auto_commit=ac), or ds.open() and schema.ctx() when ac is None
Open(ac) ==
    /\ ~source.released
    /\ Len(source.opened) < MaxOpen
    /\ LET o == open(source, ac)
       IN source' = [o.source EXCEPT !.last =
              [SourceCall("open", o.exe, NoText, Ok, o.executed, o.found, NoBinding)
                  EXCEPT !.auto_commit = ac]]
    /\ UNCHANGED <<cvars, tvars, qvars>>

\* ctx.close() on a context the owner opened
CloseContext(i) ==
    /\ i <= Len(source.opened)
    /\ source' = [source EXCEPT !.opened[i] = ctx_close(@), !.last =
           SourceCall("close", i, NoText, Ok, <<>>, "", NoBinding)]
    /\ UNCHANGED <<cvars, tvars, qvars>>

\* ds.<name>, DataSource.__getattr__: the default context, then its attribute
GetAttr(name) ==
    /\ ~source.released
    /\ source.default_ctx_obj # 0 \/ Len(source.opened) < MaxOpen
    /\ LET d == default_ctx(source)
           r == ctx_getattr(d.source, d.exe, name)
       IN source' = [r.source EXCEPT
              !.constructed = IF d.created THEN @ + 1 ELSE @,
              !.returned = @ \cup {d.exe},
              !.last = SourceCall("getattr", d.exe, name, r.res, d.executed,
                                  d.found, r.ret)]
    /\ UNCHANGED <<cvars, tvars, qvars>>

\* the owner is released: DataSource.__del__
Del ==
    /\ ~source.released
    /\ source' = [del_source(source) EXCEPT !.last =
           SourceCall("__del__", source.default_ctx_obj, NoText, Ok, <<>>, "",
                      NoBinding)]
    /\ UNCHANGED <<cvars, tvars, qvars>>

\* ctx.<name> on a context the owner opened
ContextGetAttr(i, name) ==
    /\ i <= Len(source.opened)
    /\ LET r == ctx_getattr(source, i, name)
       IN source' = [r.source EXCEPT !.last =
              SourceCall("ctx.getattr", i, name, r.res, <<>>, "", r.ret)]
    /\ UNCHANGED <<cvars, tvars, qvars>>

\* schema.add_table(name, alias=alias) while contexts are open
AddTable(name, alias) ==
    /\ source.schema.added < MaxAdded
    /\ source' = [source EXCEPT
           !.schema = [add_table(@, name, alias) EXCEPT !.added = @ + 1], !.last =
           SourceCall("add_table", 0, name, Ok, <<>>, "", NoBinding)]
    /\ UNCHANGED <<cvars, tvars, qvars>>

\* the auto_commit given to open(): left out, or false
OpenArguments == {None, PyFalse}

\* What a DataSource has for a schema: one of the schemas, as constructed or
\* with auto_commit turned off, or none.
SourceSchemas ==
    Schemas \cup {[schema EXCEPT !.auto_commit = PyFalse] : schema \in Schemas}
            \cup {NoSchema}

InitSource ==
    /\ ctxs = <<>>
    /\ conns = <<>>
    /\ last = [op |-> "", ctx |-> 0, res |-> Ok, arg |-> "", log |-> <<>>,
               rows |-> {}]
    /\ table = Table("", <<>>, <<>>, NoProto, <<>>)
    /\ store = <<>>
    /\ call = NoCall
    /\ query = NoQuery
    /\ source \in {DataSource(MEMORY, schema, File(FALSE, <<>>)) :
                        schema \in SourceSchemas}
              \cup {DataSource(TEST_DB, schema, file) :
                        schema \in SourceSchemas, file \in Files}

\* The owner: contexts opened and closed, the default context, the release.
NextSource ==
    \/ \E ac \in OpenArguments : Open(ac)
    \/ \E i \in Opened : CloseContext(i)
    \/ \E name \in OwnerNames : GetAttr(name)
    \/ Del

SpecSource == InitSource /\ [][NextSource]_vars

\* The tables of the schema reached through the contexts of an in-memory
\* owner, while the schema goes on registering tables.
InitBinding ==
    /\ InitSource
    /\ source.path = MEMORY
    /\ source.schema \in Schemas

NextBinding ==
    \/ \E ac \in OpenArguments : Open(ac)
    \/ \E i \in Opened, name \in ContextNames : ContextGetAttr(i, name)
    \/ \E named \in {<<"person", NoText>>, <<"school", "college">>} :
           AddTable(named[1], named[2])

SpecBinding == InitBinding /\ [][NextBinding]_vars

\* ------------------------------------------------- the calls on a Table
\* The calls a Table descriptor offers, by name, and the statement each
\* executes on the table called name.
TableCalls == {"select", "insert", "delete"}
TableNames == {"person"}

Statement(op, name) ==
    CASE op = "insert" /\ name = "person" -> "INSERT INTO person"
      [] op = "delete" /\ name = "person" -> "DELETE FROM person"
      [] OTHER -> "SELECT"

\* execute(stmt) that reaches the database of every context of the owner
ctx_write_shared(src, i, stmt) ==
    [src EXCEPT !.opened = [k \in DOMAIN src.opened |->
                               [src.opened[k] EXCEPT !.content = Append(@, stmt)]],
                !.writes = @ + 1]

\* execute(stmt) on context i, for a statement that writes: it changes the
\* database the connection of the context was made to, which for the in-memory
\* name is a database of that connection alone.
ctx_write(src, i, stmt) ==
    [src EXCEPT !.opened[i].content = Append(@, stmt), !.writes = @ + 1]

\* Table.__ds_ctx: getattr(self._data_source, self.name), the binding of the
\* table on the default context of the owner.
ds_ctx(src, name) ==
    LET d == default_ctx(src)
        r == ctx_getattr(d.source, d.exe, name)
    IN [source |-> r.source, binding |-> r.ret, created |-> d.created,
        executed |-> d.executed, found |-> d.found]

\* the first line of a call that never looks at the ctx it is given
table_ctx_ignoring(src, name, ctx) == ds_ctx(src, name)

\* `ctx = self.__ds_ctx() if ctx is None else self.ctx(ctx)`, the first line
\* of every call on a Table; ctx is 0 when the caller left it out.
table_ctx(src, name, ctx) ==
    IF ctx = 0 THEN ds_ctx(src, name)
    ELSE [source |-> src,
          binding |-> TableContext(src.schema.tables[name], ctx, <<ctx, name, 0>>),
          created |-> FALSE, executed |-> <<>>, found |-> ""]

\* tbl.<op>(..., ctx=ctx) for the table registered as name: the binding, then
\* the statement on the context of the binding.  A closed context raises.
TableCallOn(op, name, ctx) ==
    /\ ~source.released
    /\ name \in DOMAIN source.schema.tables
    /\ ctx <= Len(source.opened)
    /\ ctx = 0 => (source.default_ctx_obj # 0 \/ Len(source.opened) < MaxOpen)
    /\ op # "select" => source.writes < MaxWrites
    /\ LET t == table_ctx(source, name, ctx)
           i == t.binding.ctx
           closed == t.source.opened[i].closed
           done == IF closed \/ op = "select" THEN t.source
                   ELSE ctx_write(t.source, i, Statement(op, name))
       IN source' = [done EXCEPT
              !.constructed = IF t.created THEN @ + 1 ELSE @,
              !.last = [SourceCall(op, i, name,
                                   IF closed THEN ProgrammingError ELSE Ok,
                                   t.executed, t.found, t.binding)
                           EXCEPT !.given = ctx]]
    /\ UNCHANGED <<cvars, tvars, qvars>>

\* The tables of an in-memory schema called with and without a context, on
\* contexts made by schema.ctx() and closed by their users.
NextCalls ==
    \/ Open(None)
    \/ \E i \in Opened : CloseContext(i)
    \/ \E op \in TableCalls, name \in TableNames, ctx \in {0} \cup Opened :
           TableCallOn(op, name, ctx)

SpecCalls == InitBinding /\ [][NextCalls]_vars

\* --------------------------------------------------- claims on DataSource
\* the last call opened a context and found the store in need of setup
SetupRan == source.last.found \in {"memory", "absent", "empty"}

\* C16: setup files and scripts are executed only by an open() that finds the
\* store to be in-memory, absent or of length zero, and on a file-backed store
\* they are executed by one open() at most: once the store has been set up no
\* later open() executes them again.
C16_SetupOncePerStore ==
    /\ source.path # NoText /\ source.last.executed # <<>> => SetupRan
    /\ source.path \notin {NoText, MEMORY} => source.setups <= 1

\* C17: when setup is required, open() executes every registered setup file in
\* registration order and then every registered setup script in registration
\* order, all on the newly created context it returns; a schema composed by
\* inheritance runs the base fragment first: for SchemaAB(SchemaB, SchemaA)
\* the files of Schema, SchemaA, SchemaB, then their scripts in that order.
C17_SetupFilesThenScripts ==
    source.path # NoText /\ SetupRan =>
        LET c == source.last
            exe == source.opened[c.ctx]
            written == SelectSeq(c.executed, Writes)
        IN /\ c.executed = source.schema.setup_files \o source.schema.setup_scripts
           /\ c.ctx = Len(source.opened)
           /\ IF exe.in_memory THEN exe.content = written
              ELSE source.file.content = written
           /\ \A given \in SetupArguments :
                 source.schema = init(mro("SchemaAB"), given[1], given[2]) =>
                     c.executed =
                         Database(given[1], given[2]).setup_files
                         \o <<"schemaA.sql", "schemaB.sql">>
                         \o Database(given[1], given[2]).setup_scripts
                         \o <<"INSERT INTO person", "INSERT INTO hobby",
                              "INSERT INTO person_hobby">>

C17_Witness ==
    /\ source.path # NoText
    /\ SetupRan
    /\ source.schema = init(mro("SchemaAB"), SETUP_SCRIPT, SETUP_FILE)
    /\ Len(source.last.executed) = 7
    /\ source.file.content = source.last.executed

\* C27: a connectionless call served by the default context of the owner is
\* served by an open context, also after the default context has been closed.
C27_DefaultContextIsOpen ==
    (source.path # NoText /\ source.last.op = "getattr") =>
        ~source.opened[source.last.ctx].closed

\* C29: a context returned by open() without an auto_commit argument has the
\* auto_commit of the schema, and auto_commit true when the owner has no
\* schema; so each successful execute on it is committed when the flag of the
\* schema, or the default, says so.
C29_OpenTakesAutoCommitOfSchema ==
    (/\ source.path # NoText
     /\ source.last.op \in {"open", "getattr"}
     /\ source.last.found # ""
     /\ source.last.auto_commit = None)
        => /\ source.opened[source.last.ctx].auto_commit =
                  IF source.schema = NoSchema THEN PyTrue
                  ELSE source.schema.auto_commit
           /\ truthy(source.opened[source.last.ctx].auto_commit) <=>
                  (source.schema = NoSchema \/ truthy(source.schema.auto_commit))

\* C18: the default context is made at the first connectionless access and
\* not before, it is made once, every such access goes to that one context,
\* and releasing the owner leaves it closed, its connection closed once.
C18_DefaultContextOnce ==
    source.path # NoText =>
        /\ source.constructed <= 1
        /\ Cardinality(source.returned) <= 1
        /\ source.returned = {} => source.default_ctx_obj = 0 /\ source.constructed = 0
        /\ source.last.op = "getattr" =>
               source.default_ctx_obj # 0 /\ source.last.ctx = source.default_ctx_obj
        /\ source.default_ctx_obj # 0 =>
               /\ source.returned = {source.default_ctx_obj}
               /\ source.opened[source.default_ctx_obj].closes <= 1
               /\ source.released =>
                      /\ source.opened[source.default_ctx_obj].closed
                      /\ source.opened[source.default_ctx_obj].closes = 1

C18_Witness ==
    /\ source.path # NoText
    /\ source.last.op = "__del__"
    /\ source.default_ctx_obj = 2
    /\ source.constructed = 1
    /\ source.opened[2].closes = 1
    /\ ~source.opened[1].closed

\* C19: the first access to a table by name on a context makes the binding
\* and keeps it on the context; every later access returns that same binding,
\* bound to that context and to the descriptor that was registered under the
\* name (or the alias) when it was first accessed, whatever is registered
\* under the name afterwards.
C19_TableBindingCached ==
    [][/\ \A i \in 1..Len(source.opened) :
              \A name \in DOMAIN source.opened[i].bindings :
                  source'.opened[i].bindings[name] = source.opened[i].bindings[name]
       /\ source'.last.op = "ctx.getattr" =>
              LET c == source'.last
                  before == source.opened[c.ctx].bindings
              IN c.name \in DOMAIN before \cup DOMAIN source.schema.tables =>
                     /\ c.res = Ok
                     /\ c.ret = source'.opened[c.ctx].bindings[c.name]
                     /\ c.ret.ctx = c.ctx
                     /\ IF c.name \in DOMAIN before THEN c.ret = before[c.name]
                        ELSE c.ret.table = source.schema.tables[c.name]]_vars

C19_Witness ==
    /\ source.path # NoText
    /\ source.last.op = "ctx.getattr"
    /\ source.last.res = Ok
    /\ source.last.name = "college"
    /\ source.last.ret = source.opened[source.last.ctx].bindings["college"]
    /\ source.last.ret.table # source.schema.tables["college"]

C23_SeparateStores ==
    [][/\ source'.last.op \in TableCalls =>
              \A k \in 1..Len(source.opened) :
                  k # source'.last.ctx =>
                      source'.opened[k].content = source.opened[k].content
       /\ Len(source'.opened) > Len(source.opened) =>
              /\ source'.last.found = "memory"
              /\ source'.last.executed
                     = setup([content |-> <<>>, log |-> <<>>], source.schema).log]_vars

\* after an insert through the default context, the context made by ctx()
\* still sees what its own setup left, and the default context one row more
C23_Witness ==
    /\ source.path # NoText
    /\ source.last.op = "insert"
    /\ source.last.res = Ok
    /\ source.last.ctx = source.default_ctx_obj
    /\ Len(source.opened) = 2
    /\ \E k \in 1..2 :
           /\ k # source.default_ctx_obj
           /\ source.opened[k].content # <<>>
           /\ source.opened[k].content
                  = setup([content |-> <<>>, log |-> <<>>], source.schema).content
           /\ source.opened[source.default_ctx_obj].content
                  = Append(source.opened[k].content, "INSERT INTO person")

\* ------------------------------------------------------------------ with_ctx
\* What the method wrapped by with_ctx does with the ctx it receives: a
\* select, an insert, or a select through a double() of it that it uses in a
\* with-block of its own; and how it ends, when no call of its body raised.
Bodies == {"select", "insert", "double"}
Ends == {"return", "raise"}
Raised == "Exception: raised by the wrapped method"

\* What a method body whose last call came back as r leaves behind: its
\* outcome, the contexts cxs and the connections.
body_result(r, cxs) == [res |-> r.res, ctxs |-> cxs, conns |-> r.conns]

\* The end of `with ctx.double() as c2: c2.select(...)`: __exit__ of c2 came
\* back as x after the select came back as r; what __exit__ raises is what the
\* block raises.
block_result(x, r, cxs) ==
    [res |-> IF x.res # Ok THEN x.res ELSE r.res, ctxs |-> Append(cxs, x.ctx),
     conns |-> x.conns]

double_exit(c2, r, cxs) == block_result(exit(c2, r.conns), r, cxs)

\* `with ctx.double() as c2: c2.select(...)`, c2 being on the connection of ctx
\* with the auto_commit of the constructor's default
double_block(cx, cxs, cs) ==
    IF cs[cx.cur].alive
    THEN double_exit([conn |-> cx.conn, cur |-> cx.conn, auto_commit |-> PyTrue,
                      closed |-> FALSE],
                     execute([conn |-> cx.conn, cur |-> cx.conn,
                              auto_commit |-> PyTrue, closed |-> FALSE],
                             cs, Stmt("SELECT")),
                     cxs)
    ELSE [res |-> ProgrammingError, ctxs |-> cxs, conns |-> cs]

\* how the method ends when the calls of its body came back as b
ended(b, end) == [b EXCEPT !.res = IF @ = Ok /\ end = "raise" THEN Raised ELSE @]

\* func(_obj, ctx=cxs[c]) on the contexts cxs and the connections cs
func(body, end, c, cxs, cs) ==
    ended(CASE body = "double" -> double_block(cxs[c], cxs, cs)
            [] body = "insert" -> body_result(execute(cxs[c], cs, Stmt("INSERT")), cxs)
            [] OTHER -> body_result(execute(cxs[c], cs, Stmt("SELECT")), cxs),
          end)

\* the end of `with _obj.ctx() as new_ctx`: __exit__ of new_ctx came back as x
\* after the method came back as f
with_result(new_ctx, x, f) ==
    [ctx |-> new_ctx, res |-> IF x.res # Ok THEN x.res ELSE f.res,
     ctxs |-> [f.ctxs EXCEPT ![new_ctx] = x.ctx], conns |-> x.conns,
     opened |-> {new_ctx}]

with_exit(new_ctx, f) == with_result(new_ctx, exit(f.ctxs[new_ctx], f.conns), f)

\* the method called with the ctx it was given came back as f
func_result(given, f) ==
    [ctx |-> given, res |-> f.res, ctxs |-> f.ctxs, conns |-> f.conns,
     opened |-> {}]

\* func_with_context(_obj, ctx=given), given 0 for a ctx left out or None:
\* then the method runs inside `with _obj.ctx() as new_ctx`, the new context
\* having the auto_commit ac of the schema, and __exit__ runs however the
\* method ends; else the method is called with the ctx as it is.  opened are
\* the contexts the wrapper opened.
with_ctx(given, ac, body, end, cxs, cs) ==
    IF given = 0
    THEN with_exit(Len(cxs) + 1,
                   func(body, end, Len(cxs) + 1,
                        Append(cxs, [conn |-> Len(cs) + 1, cur |-> Len(cs) + 1,
                                     auto_commit |-> ac, closed |-> FALSE]),
                        Append(cs, connect)))
    ELSE func_result(given, func(body, end, given, cxs, cs))

\* the wrapped call came back as w
Returned(given, body, end, w) ==
    /\ ctxs' = w.ctxs
    /\ conns' = w.conns
    /\ last' = [given |-> given, body |-> body, opened |-> w.opened]
                   @@ Call("with_ctx", w.ctx, w.res, end, <<>>, {})

\* obj.method(...) or obj.method(..., ctx=ctxs[given]) for a method wrapped by
\* with_ctx
WithCtx(given, ac, body, end) ==
    /\ UNCHANGED <<tvars, qvars, dvars>>
    /\ given # 0 => /\ ac = ctxs[given].auto_commit
                    /\ body = "double" => ctxs[given].conn # None
                    /\ body = "insert" => Fits(ctxs[given], Stmt("INSERT"))
    /\ Len(ctxs) + (IF given = 0 THEN 1 ELSE 0) + (IF body = "double" THEN 1 ELSE 0)
           <= MaxScoped
    /\ Returned(given, body, end, with_ctx(given, ac, body, end, ctxs, conns))

\* Wrapped methods called without a context and with one that the caller
\* made, and closes.
NextScoped ==
    \/ \E ac \in AcValues : ExecutionContext(ac)
    \/ \E given \in {0} \cup Ctx, ac \in AcValues, body \in Bodies, end \in Ends :
           WithCtx(given, ac, body, end)
    \/ \E c \in Ctx : Close(c)

SpecScoped == Init /\ [][NextScoped]_vars

\* C22: a method wrapped by with_ctx and called without ctx receives a newly
\* opened context, which is closed when the method has returned or raised;
\* called with a ctx it receives that ctx, the wrapper opens none, and the ctx
\* is left as open as it was.
C22_WithCtxScoped ==
    [][last'.op = "with_ctx" =>
           IF last'.given = 0
           THEN /\ last'.ctx > Len(ctxs)
                /\ last'.opened = {last'.ctx}
                /\ ~is_open(ctxs'[last'.ctx])
           ELSE /\ last'.ctx = last'.given
                /\ last'.opened = {}
                /\ is_open(ctxs'[last'.given]) = is_open(ctxs[last'.given])]_vars

\* ------------------------------------------------------------ MemorySource
\* MemorySource.__init__: the path of the file, no connection yet.  rows are
\* the rows of the database in the file, loads counts the times the file was
\* fetched into memory.
MemorySource(db_path, rows) ==
    [path |-> db_path, conn |-> 0, rows |-> rows, loads |-> 0]

\* source.backup(self.__conn): an in-memory database with the rows of the file
backup(src) ==
    [alive |-> TRUE, rows |-> src.rows, in_transaction |-> FALSE, journal |-> {}]

\* ExecutionContext(self.__conn, schema=schema, auto_commit=ac) came back on
\* the connection conn of the connections cs: conn.cursor() raises on a closed
\* connection, and then there is no context.
Constructed(conn, ac, cs) ==
    /\ conns' = cs
    /\ IF cs[conn].alive
       THEN /\ ctxs' = Append(ctxs, [conn |-> conn, cur |-> conn,
                                     auto_commit |-> ac, closed |-> FALSE])
            /\ last' = Call("open", Len(ctxs) + 1, Ok, "", <<>>, {})
       ELSE /\ ctxs' = ctxs
            /\ last' = Call("open", 0, ProgrammingError, "", <<>>, {})

\* MemorySource.open(auto_commit=ac): the file is fetched into a connection
\* to ':memory:' when the source has no connection yet; the context is made on
\* the connection of the source.
MemoryOpen(ac) ==
    /\ UNCHANGED <<tvars, qvars>>
    /\ Len(ctxs) < MaxOpen
    /\ IF source.conn = 0
       THEN /\ source' = [source EXCEPT !.conn = Len(conns) + 1, !.loads = @ + 1]
            /\ Constructed(Len(conns) + 1, ac, Append(conns, backup(source)))
       ELSE /\ source' = source
            /\ Constructed(source.conn, ac, conns)

\* the rows of the file a MemorySource is made for: none, or one
InitMemory ==
    /\ ctxs = <<>>
    /\ conns = <<>>
    /\ last = Call("", 0, Ok, "", <<>>, {})
    /\ table = Table("", <<>>, <<>>, NoProto, <<>>)
    /\ store = <<>>
    /\ call = NoCall
    /\ query = NoQuery
    /\ source \in {MemorySource(TEST_DB, rows) : rows \in SUBSET RowIds}

\* The contexts of a MemorySource opened, used and closed.
NextMemory ==
    \/ \E ac \in AcValues \cup {None} : MemoryOpen(ac)
    \/ \E c \in Ctx : Select(c)
    \/ \E c \in Ctx : Insert(c)
    \/ \E c \in Ctx : Rollback(c)
    \/ \E c \in Ctx : Close(c)

SpecMemory == InitMemory /\ [][NextMemory]_vars

\* C26: MemorySource.open() fetches the file into memory at most once, and
\* after whatever open() and close() calls came before, it returns a context
\* whose connection is open and on which execute() works.
C26_MemoryOpenUsable ==
    /\ source.loads <= 1
    /\ last.op = "open" =>
           /\ last.res = Ok
           /\ ConnOf(last.ctx).alive
           /\ execute(ctxs[last.ctx], conns, Stmt("SELECT")).res = Ok

\* ------------------------------------------------- select and select_iter
\* ExecutionContext.select(table, ...) for a table given by name:
\* execute(query, values).fetchall(), the rows of the result in rowid order.
\* executed counts the executions of the query.
select(cx, cs) ==
    LET r == execute(cx, cs, Stmt("SELECT"))
    IN [res |-> r.res, conns |-> r.conns, log |-> r.log, executed |-> 1,
        fetched |-> IF r.res = Ok THEN Sorted(r.rows) ELSE <<>>]

\* list(ctx.select_iter(table, ...)) for a table given by name.  select_iter
\* has a yield in it, so it is a generator function: its body runs when the
\* caller iterates, and `return self.execute(query, values)` ends the
\* iteration with nothing yielded.
select_iter(cx, cs) ==
    LET r == execute(cx, cs, Stmt("SELECT"))
    IN [res |-> r.res, conns |-> r.conns, log |-> r.log, executed |-> 1,
        fetched |-> <<>>]

SelectIter(c) ==
    /\ UNCHANGED <<tvars, qvars, dvars>>
    /\ LET r == select_iter(ctxs[c], conns)
       IN /\ conns' = r.conns
          /\ last' = [fetched |-> r.fetched, executed |-> r.executed]
                         @@ Call("select_iter", c, r.res, "SELECT", r.log, {})
    /\ UNCHANGED ctxs

\* A context and a double of it: rows inserted, selected by table name, by
\* select and by select_iter.
NextIter ==
    \/ \E ac \in AcValues : ExecutionContext(ac)
    \/ \E c \in Ctx, ac \in AcValues : Double(c, ac)
    \/ \E c \in Ctx : Insert(c)
    \/ \E c \in Ctx : Select(c)
    \/ \E c \in Ctx : SelectIter(c)
    \/ \E c \in Ctx : Rollback(c)
    \/ \E c \in Ctx : Close(c)

SpecIter == Init /\ [][NextIter]_vars

\* C28: for a table given by name, select_iter yields the rows select returns
\* for the same arguments, in the same order, and executes the query exactly
\* once.
C28_SelectIterAsSelect ==
    [][last'.op = "select_iter" =>
           /\ last'.res = select(ctxs[last'.ctx], conns).res
           /\ last'.fetched = select(ctxs[last'.ctx], conns).fetched
           /\ last'.executed = 1]_vars

====
